---------------------------- MODULE Spec2Model ----------------------------
(***************************************************************************)
(* A model of backend/api.py: the two FastAPI handlers process_ai_data and *)
(* fetch_data over the SQLite table processed_data, with the helper        *)
(* clean_json_output and the pandas conversions the handlers call.         *)
(*                                                                         *)
(* Text is a sequence of tokens: a character, the backquote (Backquote),   *)
(* a whole JSON document named by DocNames, or a chunk such as "{not json" *)
(* that is no JSON document.  The fence handling works on characters, the  *)
(* JSON parser on whole documents.  CSV text is                            *)
(* the grid of its cells (a sequence of lines, each a sequence of cell     *)
(* texts); the values of the model hold no delimiter, quote or newline, so *)
(* CSV quoting never applies.                                              *)
(***************************************************************************)
EXTENDS Integers, Sequences, FiniteSets, TLC

(***************************************************************************)
(* Bounds of the model.                                                    *)
(***************************************************************************)
NumCallers  == 2   \* requests in flight at once (slots)
NumKeys     == 2   \* identifiers uuid4 can draw / a client can ask for
MaxTicks    == 3   \* clock advances in one behaviour
MaxChunks   == 5   \* chunks a text given to clean_json_output is made of
MaxCalls    == 2   \* calls of clean_json_output, each on the last result

EXPIRATION_TIME_SECONDS == 300

Callers == 1..NumCallers
Keys    == 1..NumKeys

(***************************************************************************)
(* str helpers: strip, startswith, split, lower.                           *)
(***************************************************************************)
Whitespace == {" ", "\n"}

RECURSIVE lstrip(_)
lstrip(s) ==
    IF s # <<>> /\ Head(s) \in Whitespace THEN lstrip(Tail(s)) ELSE s

RECURSIVE rstrip(_)
rstrip(s) ==
    IF s # <<>> /\ s[Len(s)] \in Whitespace
    THEN rstrip(SubSeq(s, 1, Len(s) - 1))
    ELSE s

strip(s) == rstrip(lstrip(s))

startswith(s, prefix) ==
    /\ Len(s) >= Len(prefix)
    /\ SubSeq(s, 1, Len(prefix)) = prefix

\* The backquote character, written as a token of its own.
Backquote == "BQ"

FENCE == <<Backquote, Backquote, Backquote>>

\* str.split(sep): the parts between the non-overlapping occurrences of sep,
\* found left to right.
RECURSIVE split(_, _)
split(s, sep) ==
    LET hits == {i \in 1..(Len(s) - Len(sep) + 1) :
                    SubSeq(s, i, i + Len(sep) - 1) = sep}
    IN  IF hits = {}
        THEN <<s>>
        ELSE LET i == CHOOSE h \in hits : \A g \in hits : h <= g
             IN  <<SubSeq(s, 1, i - 1)>>
                   \o split(SubSeq(s, i + Len(sep), Len(s)), sep)

lowerChar(c) ==
    CASE c = "J" -> "j"
      [] c = "S" -> "s"
      [] c = "O" -> "o"
      [] c = "N" -> "n"
      [] c = "R" -> "r"
      [] c = "C" -> "c"
      [] c = "V" -> "v"
      [] OTHER   -> c

lower(s) == [i \in 1..Len(s) |-> lowerChar(s[i])]

JSONTAG == <<"j", "s", "o", "n">>

(***************************************************************************)
(* clean_json_output.  The endpoint always passes a str (the pydantic      *)
(* model DataPayload admits nothing else); the function itself also takes  *)
(* None, written here as a text of the one token "None".                   *)
(***************************************************************************)
None == <<"None">>

\* clean_json_output taking the fence for one only when it is closed
\* (len(parts) > 2): an unterminated fence falls back to the input.
clean_json_output_closed(json_string) ==
    IF json_string = None
    THEN <<>>
    ELSE LET stripped == strip(json_string)
         IN  IF startswith(stripped, FENCE) /\ Len(split(stripped, FENCE)) > 2
             THEN LET content == strip(split(stripped, FENCE)[2])
                  IN  IF startswith(lower(content), JSONTAG)
                      THEN strip(SubSeq(content, Len(JSONTAG) + 1, Len(content)))
                      ELSE content
             ELSE json_string

\* clean_json_output removing the tag 'json' from the front of any text,
\* fenced or not.
clean_json_output_tag(json_string) ==
    IF json_string = None
    THEN <<>>
    ELSE LET stripped == strip(json_string)
             content == IF startswith(stripped, FENCE)
                        THEN strip(split(stripped, FENCE)[2])
                        ELSE stripped
         IN  IF startswith(lower(content), JSONTAG)
             THEN strip(SubSeq(content, Len(JSONTAG) + 1, Len(content)))
             ELSE content

\* clean_json_output removing the fences and leaving the language tag.
clean_json_output_keep_tag(json_string) ==
    IF json_string = None
    THEN <<>>
    ELSE LET stripped == strip(json_string)
         IN  IF startswith(stripped, FENCE)
             THEN strip(split(stripped, FENCE)[2])
             ELSE json_string

clean_json_output(json_string) ==
    IF json_string = None
    THEN <<>>
    ELSE LET stripped == strip(json_string)
         IN  IF startswith(stripped, FENCE)
             THEN LET parts == split(stripped, FENCE)
                  IN  IF Len(parts) > 1
                      THEN LET content == strip(parts[2])
                           IN  IF startswith(lower(content), JSONTAG)
                               THEN strip(SubSeq(content, Len(JSONTAG) + 1,
                                                 Len(content)))
                               ELSE content
                      ELSE json_string
             ELSE json_string

(***************************************************************************)
(* JSON documents.  A scalar value is [t, s]: its type and its text.       *)
(* An object is the sequence of its members [k, v] in document order.      *)
(***************************************************************************)
Str(s)  == [t |-> "str", s |-> s]
Int_(s) == [t |-> "int", s |-> s]
Flt(s)  == [t |-> "float", s |-> s]
NaN     == [t |-> "nan", s |-> ""]
Mem(k, v) == [k |-> k, v |-> v]

DocNames == {"D1", "D2", "D3", "D5"}

\* D1: [{"name":"Ann","age":30},{"name":"Bo"}]   D2: [{"name":"Ann"}]
\* D3: [{"age":30}]                              D5: 5
Doc(d) ==
    CASE d = "D1" -> [kind |-> "array",
                      items |-> << <<Mem("name", Str("Ann")), Mem("age", Int_("30"))>>,
                                   <<Mem("name", Str("Bo"))>> >>]
      [] d = "D2" -> [kind |-> "array",
                      items |-> << <<Mem("name", Str("Ann"))>> >>]
      [] d = "D3" -> [kind |-> "array",
                      items |-> << <<Mem("age", Int_("30"))>> >>]
      [] OTHER    -> [kind |-> "scalar", items |-> <<>>]

\* json.loads: leading and trailing whitespace is allowed around the one
\* document; anything else raises JSONDecodeError.
json_loads_ok(text) ==
    LET t == strip(text) IN Len(t) = 1 /\ t[1] \in DocNames

json_loads(text) == Doc(strip(text)[1])

(***************************************************************************)
(* pandas: json_normalize, DataFrame.to_csv, read_csv, DataFrame.to_dict.  *)
(* A DataFrame is [columns, rows]: the column names in order and, per row, *)
(* the cell of each column (NaN where the record has no such member).      *)
(***************************************************************************)
SeqRange(s) == {s[i] : i \in 1..Len(s)}

\* json_normalize raises (NotImplementedError, AttributeError) on a value
\* that is no sequence of objects.
json_normalize_ok(data) == data.kind = "array"

RECURSIVE unionKeys(_, _)
unionKeys(cols, members) ==
    IF members = <<>>
    THEN cols
    ELSE unionKeys(IF Head(members).k \in SeqRange(cols)
                   THEN cols
                   ELSE Append(cols, Head(members).k),
                   Tail(members))

RECURSIVE columnsOf(_, _)
columnsOf(cols, items) ==
    IF items = <<>>
    THEN cols
    ELSE columnsOf(unionKeys(cols, Head(items)), Tail(items))

cellOf(item, col) ==
    IF \E i \in 1..Len(item) : item[i].k = col
    THEN item[CHOOSE i \in 1..Len(item) : item[i].k = col].v
    ELSE NaN

json_normalize(data) ==
    LET cols == columnsOf(<<>>, data.items)
    IN  [columns |-> cols,
         rows    |-> [r \in 1..Len(data.items) |->
                        [c \in 1..Len(cols) |-> cellOf(data.items[r], cols[c])]]]

\* The dtype pandas gives a column: int64 when every cell is an int, float64
\* when the cells are numbers and missing values, object otherwise.
dtype(df, c) ==
    LET ts == {df.rows[r][c].t : r \in 1..Len(df.rows)}
    IN  IF ts \subseteq {"int"} THEN "int64"
        ELSE IF ts \subseteq {"int", "float", "nan"} THEN "float64"
        ELSE "object"

\* The text to_csv writes for a cell (na_rep is the empty string).
cellText(v, dt) ==
    IF v.t = "nan" THEN ""
    ELSE IF dt = "float64" /\ v.t = "int" THEN v.s \o ".0"
    ELSE v.s

to_csv(df) ==
    <<df.columns>> \o
    [r \in 1..Len(df.rows) |->
        [c \in 1..Len(df.columns) |-> cellText(df.rows[r][c], dtype(df, c))]]

column_count(df) == Len(df.columns)

IntTexts   == {"30"}
FloatTexts == {"30.0"}

\* read_csv: the first line is the header; a column's type is inferred from
\* its cells, and an empty cell is NaN.
parsedCell(text, cells) ==
    IF text = "" THEN NaN
    ELSE IF cells \subseteq IntTexts THEN Int_(text)
    ELSE IF cells \subseteq (IntTexts \cup FloatTexts \cup {""})
         THEN Flt(IF text \in IntTexts THEN text \o ".0" ELSE text)
    ELSE Str(text)

read_csv(csv) ==
    LET header == csv[1]
        body   == Tail(csv)
    IN  [columns |-> header,
         rows    |-> [r \in 1..Len(body) |->
                        [c \in 1..Len(header) |->
                            parsedCell(body[r][c],
                                       {body[q][c] : q \in 1..Len(body)})]]]

\* DataFrame.to_dict(orient="records")
to_dict(df) ==
    [r \in 1..Len(df.rows) |->
        [c \in 1..Len(df.columns) |-> Mem(df.columns[c], df.rows[r][c])]]

\* JSONResponse renders with allow_nan=False: a NaN raises ValueError.
json_renderable(records) ==
    \A r \in 1..Len(records) : \A c \in 1..Len(records[r]) :
        records[r][c].v.t # "nan"

(***************************************************************************)
(* Inputs of the two endpoints.                                            *)
(***************************************************************************)
Fenced(d) == FENCE \o JSONTAG \o <<"\n", d, "\n">> \o FENCE

\* json_data_string: a bare array, the same array in a fence tagged json,
\* another array, text that is no JSON, and a JSON scalar.
Inputs == { <<"D1">>, Fenced("D1"), <<"D2">>, <<"{not json">>, <<"D5">> }

\* format: the default "csv", "json", "JSON" and "records".
Formats == { <<"c", "s", "v">>, <<"j", "s", "o", "n">>, <<"J", "S", "O", "N">>,
             <<"r", "e", "c", "o", "r", "d", "s">> }

\* The clock is observed every half time-to-live.
TickStep == EXPIRATION_TIME_SECONDS \div 2

(***************************************************************************)
(* State.                                                                  *)
(*   DB_PATH   the database the deployment selects (the environment        *)
(*             variable DB_PATH, read once at import)                      *)
(*   db        the SQLite file at DB_PATH: whether the table               *)
(*             processed_data exists, and its committed rows               *)
(*             data_id -> [csv_data, expiry]                               *)
(*   writer    the slot whose connection holds the write transaction       *)
(*             (0: none)                                                   *)
(*   now       time.time()                                                 *)
(*   call      per slot, the request in flight: its position and locals    *)
(*   resp      the response being sent, with the request it answers        *)
(*             (NoResponse once it is delivered)                           *)
(*   minted    every value of uuid.uuid4() that became a data_id in use    *)
(*   returned  every success response of process_ai_data: the key, the CSV *)
(*             stored for it, the clock value its expiry was computed from *)
(*             (t0) and the clock value at the response (t)                *)
(*   cleaned   a text under clean_json_output: the input, the result of    *)
(*             the first call, the result of the last call, and the number *)
(*             of calls made, each on the result of the one before         *)
(***************************************************************************)
VARIABLES DB_PATH, db, writer, now, call, resp, minted, returned, cleaned

vars == <<DB_PATH, db, writer, now, call, resp, minted, returned, cleaned>>

NoFile == [has_table |-> FALSE, rows |-> <<>>]

Idle == [pc |-> "idle", op |-> "none", json_string |-> <<>>,
         data_id |-> 0, format |-> <<>>,
         csv_data |-> <<>>, expiry |-> 0, found |-> FALSE,
         column_count |-> 0, t0 |-> 0]

NoResponse == [op |-> "none", json_string |-> <<>>,
               data_id |-> 0, format |-> <<>>,
               status |-> 0, detail |-> "", media_type |-> "",
               content |-> <<>>, data |-> <<>>, column_count |-> 0, at |-> 0]

\* The default of line 21, and SQLite's name for a private in-memory
\* database, which every sqlite3.connect opens anew and empty.
DEFAULT_DB_PATH == "processed_data.db"
MEMORY_DB_PATH  == ":memory:"

\* sqlite3.connect(DB_PATH): the database the new connection sees.
get_db == IF DB_PATH = MEMORY_DB_PATH THEN NoFile ELSE db

\* conn.close(): an in-memory database goes with its connection, a file
\* keeps what the connection committed.
closed(file, seen) == IF DB_PATH = MEMORY_DB_PATH THEN file ELSE seen

\* init_db with DROP TABLE / CREATE TABLE in place of IF NOT EXISTS.
init_db_recreate(file) == [has_table |-> TRUE, rows |-> <<>>]

\* CREATE TABLE IF NOT EXISTS processed_data (...); conn.commit()
init_db(file) ==
    IF file.has_table THEN file ELSE [has_table |-> TRUE, rows |-> <<>>]

\* An uncaught sqlite3.OperationalError ("no such table: processed_data"):
\* the framework answers 500.
OperationalError(r) ==
    [r EXCEPT !.status = 500, !.detail = "OperationalError"]

\* An identifier source that repeats: it gives the same value every time.
uuid4_repeat == {k \in Keys : \A j \in Keys : k <= j}

\* uuid.uuid4(): a 128-bit random identifier, taken as never repeating.
\* Identifiers are only ever compared for equality, so the model draws them
\* in the order of Keys.
uuid4 == {k \in Keys \ minted : \A j \in Keys \ minted : k <= j}

\* An INSERT OR REPLACE on a table keyed by a constant: the new row replaces
\* every row there is.
InsertOrReplace_all(rows, data_id, csv_data, expiry) ==
    [k \in DOMAIN rows \cup {data_id} |->
        [csv_data |-> csv_data, expiry |-> expiry]]

\* INSERT OR REPLACE INTO processed_data VALUES (data_id, csv_data, expiry)
InsertOrReplace(rows, data_id, csv_data, expiry) ==
    [k \in DOMAIN rows \cup {data_id} |->
        IF k = data_id
        THEN [csv_data |-> csv_data, expiry |-> expiry]
        ELSE rows[k]]

\* The module has been imported: line 42 has run init_db().
Booted ==
    /\ db = closed(NoFile, init_db(NoFile))
    /\ writer = 0
    /\ now = 0
    /\ call = [p \in Callers |-> Idle]
    /\ resp = NoResponse
    /\ minted = {}
    /\ returned = {}

\* No text is under clean_json_output.
NotCleaning == [input |-> <<>>, first |-> <<>>, output |-> <<>>, calls |-> 0]

Init == DB_PATH = DEFAULT_DB_PATH /\ Booted /\ cleaned = NotCleaning

\* Any deployment: DB_PATH names a file or the in-memory database.
DeployInit ==
    /\ DB_PATH \in {DEFAULT_DB_PATH, MEMORY_DB_PATH}
    /\ Booted
    /\ cleaned = NotCleaning

\* A request is taken by the first free slot: the slots are interchangeable.
CanCall(p) ==
    /\ resp = NoResponse
    /\ call[p].pc = "idle"
    /\ \A q \in Callers : q < p => call[q].pc # "idle"

(***************************************************************************)
(* process_ai_data                                                         *)
(***************************************************************************)
\* process_ai_data storing the raw text under the identifier before it parses
\* it: a failed parse leaves a row behind.
IngestReject_stored(p, json_string) ==
    /\ resp = NoResponse
    /\ call[p].pc = "idle"
    /\ \A q \in Callers : q < p => call[q].pc # "idle"
    /\ writer = 0
    /\ \E data_id \in {k \in Keys \ minted : \A j \in Keys \ minted : k <= j} :
        LET clean_json_string == clean_json_output(json_string)
            parsed == json_loads_ok(clean_json_string)
        IN  /\ ~ (parsed /\ json_normalize_ok(json_loads(clean_json_string)))
            /\ db' = [db EXCEPT !.rows =
                        [k \in DOMAIN db.rows \cup {data_id} |->
                            IF k = data_id
                            THEN [csv_data |-> <<json_string>>,
                                  expiry |-> now + EXPIRATION_TIME_SECONDS]
                            ELSE db.rows[k]]]
            /\ minted' = minted \cup {data_id}
            /\ resp' = [NoResponse EXCEPT !.op = "ingest",
                                          !.json_string = json_string,
                                          !.status = 400,
                                          !.detail = IF parsed THEN "normalize"
                                                     ELSE "parse",
                                          !.at = now]
    /\ UNCHANGED <<cleaned, DB_PATH, writer, now, call, returned>>

\* Lines 75-97: the identifier is drawn, then the text is cleaned and parsed
\* and the value normalized; a failure of either raises HTTPException(400)
\* and the identifier drawn is dropped with the handler's frame.
IngestReject(p, json_string) ==
    /\ CanCall(p)
    /\ \E data_id \in uuid4 :
        LET clean_json_string == clean_json_output(json_string)
            parsed == json_loads_ok(clean_json_string)
        IN  /\ ~ (parsed /\ json_normalize_ok(json_loads(clean_json_string)))
            /\ resp' = [NoResponse EXCEPT !.op = "ingest",
                                          !.json_string = json_string,
                                          !.status = 400,
                                          !.detail = IF parsed THEN "normalize"
                                                     ELSE "parse",
                                          !.at = now]
    /\ UNCHANGED <<cleaned, DB_PATH, db, writer, now, call, minted, returned>>

\* Lines 75-106: the identifier is drawn, the text parsed, normalized and
\* written as CSV, the expiry computed from the clock, and the row inserted
\* in this connection's transaction (not yet committed).
IngestInsert(p, json_string) ==
    /\ CanCall(p)
    /\ writer = 0
    /\ \E data_id \in uuid4 :
        LET clean_json_string == clean_json_output(json_string)
        IN  /\ json_loads_ok(clean_json_string)
            /\ json_normalize_ok(json_loads(clean_json_string))
            /\ LET df == json_normalize(json_loads(clean_json_string))
               IN  IF get_db.has_table
                   THEN /\ call' = [call EXCEPT ![p] =
                              [Idle EXCEPT !.pc = "inserted", !.op = "ingest",
                                           !.json_string = json_string,
                                           !.data_id = data_id,
                                           !.csv_data = to_csv(df),
                                           !.expiry = now + EXPIRATION_TIME_SECONDS,
                                           !.t0 = now,
                                           !.column_count = column_count(df)]]
                        /\ minted' = minted \cup {data_id}
                        /\ writer' = p
                        /\ UNCHANGED resp
                   ELSE /\ resp' = OperationalError(
                                      [NoResponse EXCEPT !.op = "ingest",
                                                         !.json_string = json_string,
                                                         !.at = now])
                        /\ UNCHANGED <<call, minted, writer>>
    /\ UNCHANGED <<cleaned, DB_PATH, db, now, returned>>

\* Line 107 left out: conn.close() rolls the transaction back.
IngestCommit_rollback(p) ==
    /\ resp = NoResponse
    /\ call[p].pc = "inserted"
    /\ writer' = 0
    /\ call' = [call EXCEPT ![p].pc = "committed"]
    /\ UNCHANGED <<cleaned, DB_PATH, db, now, resp, minted, returned>>

\* Lines 107-108 without the close: the commit is made and the connection,
\* with its hold on the database, is kept by the handler.
IngestCommit_keep_open(p) ==
    /\ resp = NoResponse
    /\ call[p].pc = "inserted"
    /\ db' = closed(db, [db EXCEPT !.rows =
                            InsertOrReplace(db.rows, call[p].data_id,
                                            call[p].csv_data, call[p].expiry)])
    /\ call' = [call EXCEPT ![p].pc = "committed"]
    /\ UNCHANGED <<cleaned, DB_PATH, writer, now, resp, minted, returned>>

\* Lines 107-108: conn.commit(); conn.close()
IngestCommit(p) ==
    /\ resp = NoResponse
    /\ call[p].pc = "inserted"
    /\ db' = closed(db, [db EXCEPT !.rows =
                            InsertOrReplace(db.rows, call[p].data_id,
                                            call[p].csv_data, call[p].expiry)])
    /\ writer' = 0
    /\ call' = [call EXCEPT ![p].pc = "committed"]
    /\ UNCHANGED <<cleaned, DB_PATH, now, resp, minted, returned>>

\* Lines 110-130: the success response.
IngestRespond(p) ==
    /\ resp = NoResponse
    /\ call[p].pc = "committed"
    /\ resp' = [NoResponse EXCEPT !.op = "ingest",
                                  !.json_string = call[p].json_string,
                                  !.status = 200,
                                  !.media_type = "application/json",
                                  !.data_id = call[p].data_id,
                                  !.column_count = call[p].column_count,
                                  !.at = now]
    /\ returned' = returned \cup
                     {[key |-> call[p].data_id, csv_data |-> call[p].csv_data,
                       t0 |-> call[p].t0, t |-> now]}
    /\ call' = [call EXCEPT ![p] = Idle]
    /\ UNCHANGED <<cleaned, DB_PATH, db, writer, now, minted>>

(***************************************************************************)
(* fetch_data                                                              *)
(***************************************************************************)
\* fetch_data without the expiry test of line 143 (only "if not row").
fetch_response_no_expiry(c, time) ==
    LET r == [NoResponse EXCEPT !.op = "fetch",
                                !.data_id = c.data_id, !.format = c.format,
                                !.at = time]
    IN  IF ~ c.found
        THEN [r EXCEPT !.status = 404, !.detail = "not found"]
        ELSE [r EXCEPT !.status = 200, !.media_type = "text/csv",
                       !.content = c.csv_data]

\* fetch_data with line 143 written row[1] <= time.time().
fetch_response_early(c, time) ==
    LET r == [NoResponse EXCEPT !.op = "fetch",
                                !.data_id = c.data_id, !.format = c.format,
                                !.at = time]
    IN  IF ~ c.found \/ c.expiry <= time
        THEN [r EXCEPT !.status = 404, !.detail = "not found"]
        ELSE [r EXCEPT !.status = 200, !.media_type = "text/csv",
                       !.content = c.csv_data]

\* fetch_data raising a 410 of its own for a row that is there but expired.
fetch_response_gone(c, time) ==
    LET r == [NoResponse EXCEPT !.op = "fetch",
                                !.data_id = c.data_id, !.format = c.format,
                                !.at = time]
    IN  IF ~ c.found
        THEN [r EXCEPT !.status = 404, !.detail = "not found"]
        ELSE IF c.expiry < time
        THEN [r EXCEPT !.status = 410, !.detail = "expired"]
        ELSE [r EXCEPT !.status = 200, !.media_type = "text/csv",
                       !.content = c.csv_data]

\* Lines 143-159: the response computed from the row fetchone() returned
\* (found, csv_data, expiry) and the clock.
fetch_response(c, time) ==
    LET r == [NoResponse EXCEPT !.op = "fetch",
                                !.data_id = c.data_id, !.format = c.format,
                                !.at = time]
    IN  IF ~ c.found \/ c.expiry < time
        THEN [r EXCEPT !.status = 404, !.detail = "not found"]
        ELSE IF lower(c.format) = JSONTAG
        THEN LET records == to_dict(read_csv(c.csv_data))
             IN  IF json_renderable(records)
                 THEN [r EXCEPT !.status = 200,
                                !.media_type = "application/json",
                                !.data = records]
                 ELSE [r EXCEPT !.status = 500, !.detail = "ValueError"]
        ELSE [r EXCEPT !.status = 200, !.media_type = "text/csv",
                       !.content = c.csv_data]

\* The SELECT of line 140 without its WHERE clause: fetchone() returns the
\* first row of the table, whatever data_id asks for.
select_row_any(rows, data_id, format) ==
    IF DOMAIN rows # {}
    THEN LET k == CHOOSE j \in DOMAIN rows : \A i \in DOMAIN rows : j <= i
         IN  [Idle EXCEPT !.op = "fetch", !.data_id = data_id,
                          !.format = format, !.found = TRUE,
                          !.csv_data = rows[k].csv_data,
                          !.expiry = rows[k].expiry]
    ELSE [Idle EXCEPT !.op = "fetch", !.data_id = data_id, !.format = format]

\* Lines 138-142: SELECT csv_data, expiry ... WHERE data_id = ?; fetchone()
select_row(rows, data_id, format) ==
    IF data_id \in DOMAIN rows
    THEN [Idle EXCEPT !.op = "fetch", !.data_id = data_id, !.format = format,
                      !.found = TRUE,
                      !.csv_data = rows[data_id].csv_data,
                      !.expiry = rows[data_id].expiry]
    ELSE [Idle EXCEPT !.op = "fetch", !.data_id = data_id, !.format = format]

\* fetch_data deleting the row it finds expired (DELETE ...; commit) before
\* it answers 404.
fetch_data_delete(data_id, format) ==
    /\ resp = NoResponse
    /\ get_db.has_table
    /\ resp' = fetch_response(select_row(get_db.rows, data_id, format), now)
    /\ db' = IF data_id \in DOMAIN db.rows /\ db.rows[data_id].expiry < now
             THEN [db EXCEPT !.rows =
                      [k \in DOMAIN db.rows \ {data_id} |-> db.rows[k]]]
             ELSE db
    /\ UNCHANGED <<cleaned, DB_PATH, writer, now, call, minted, returned>>

\* The whole handler, for a request of any client: it writes nothing, so the
\* row it selects and the clock it reads are those of one instant.
fetch_data(data_id, format) ==
    /\ resp = NoResponse
    /\ resp' = IF get_db.has_table
               THEN fetch_response(select_row(get_db.rows, data_id, format), now)
               ELSE OperationalError([NoResponse EXCEPT !.op = "fetch",
                                                        !.data_id = data_id,
                                                        !.format = format,
                                                        !.at = now])
    /\ UNCHANGED <<cleaned, DB_PATH, db, writer, now, call, minted, returned>>

(***************************************************************************)
(* The environment: a response is delivered, the clock advances, the       *)
(* process is restarted (the module is imported again: init_db()).         *)
(***************************************************************************)
\* The response leaves the server before the next step is observed.
Deliver ==
    /\ resp # NoResponse
    /\ resp' = NoResponse
    /\ UNCHANGED <<cleaned, DB_PATH, db, writer, now, call, minted, returned>>

Tick ==
    /\ resp = NoResponse
    /\ now < MaxTicks * TickStep
    /\ now' = now + TickStep
    /\ UNCHANGED <<cleaned, DB_PATH, db, writer, call, resp, minted, returned>>

\* The requests in flight are lost, an uncommitted transaction is rolled
\* back, and line 42 runs init_db() on the file as it is.
Restart ==
    /\ resp = NoResponse
    /\ \E p \in Callers : call[p].pc # "idle"
    /\ db' = closed(db, init_db(get_db))
    /\ writer' = 0
    /\ call' = [p \in Callers |-> Idle]
    /\ UNCHANGED <<cleaned, DB_PATH, now, resp, minted, returned>>

Next ==
    \/ \E p \in Callers : \E json_string \in Inputs : IngestReject(p, json_string)
    \/ \E p \in Callers : \E json_string \in Inputs : IngestInsert(p, json_string)
    \/ \E p \in Callers : IngestCommit(p)
    \/ \E p \in Callers : IngestRespond(p)
    \/ \E data_id \in Keys : \E format \in Formats :
          fetch_data(data_id, format)
    \/ Deliver
    \/ Tick
    \/ Restart

Spec == Init /\ [][Next]_vars

DeploySpec == DeployInit /\ [][Next]_vars

\* Every handler that has started runs to its response.  A handler does not
\* wait for the responses of other requests to leave, so its steps are taken
\* however often such a response is in the way (strong fairness).
FairSpec ==
    /\ Spec
    /\ WF_vars(Deliver)
    /\ \A p \in Callers :
        /\ SF_vars(IngestCommit(p))
        /\ SF_vars(IngestRespond(p))

(***************************************************************************)
(* clean_json_output on its own: a text made of up to MaxChunks chunks (or *)
(* None) is given to the function, and the result given to it again.       *)
(***************************************************************************)
\* A fence, a lone backquote, the tag in both cases, white space, a JSON
\* document and a letter.
Chunks == { FENCE, <<Backquote>>, JSONTAG, <<"J", "S", "O", "N">>,
            <<" ">>, <<"\n">>, <<"D1">>, <<"x">> }

RECURSIVE TextsOf(_)
TextsOf(n) ==
    IF n = 0
    THEN {<<>>}
    ELSE LET shorter == TextsOf(n - 1)
         IN  shorter \cup {t \o c : t \in shorter, c \in Chunks}

\* The texts of up to n chunks, and None.
Texts(n) == TextsOf(n) \cup {None}

CleanInit ==
    /\ DB_PATH = DEFAULT_DB_PATH
    /\ Booted
    /\ \E json_string \in Texts(MaxChunks) :
          cleaned = [input |-> json_string, first |-> json_string,
                     output |-> json_string, calls |-> 0]

Clean ==
    /\ cleaned.calls < MaxCalls
    /\ LET result == clean_json_output(cleaned.output)
       IN  cleaned' = [input  |-> cleaned.input,
                       first  |-> IF cleaned.calls = 0 THEN result
                                  ELSE cleaned.first,
                       output |-> result,
                       calls  |-> cleaned.calls + 1]
    /\ UNCHANGED <<DB_PATH, db, writer, now, call, resp, minted, returned>>

CleanNext == Clean

CleanSpec == CleanInit /\ [][CleanNext]_vars

(***************************************************************************)
(* Properties.                                                             *)
(*                                                                         *)
(* resp holds a response in the state right after its handler has run, so  *)
(* db and now are there what the handler saw.                              *)
(***************************************************************************)
IsFetch  == resp.op = "fetch"
IsIngest == resp.op = "ingest"
Rows     == db.rows
ReturnedKeys == {e.key : e \in returned}
RawFormat(format) == lower(format) # JSONTAG

(* C1: a fetch of a key whose row is in the table with an expiry strictly  *)
(* below the current time answers 404 and carries no payload, neither as   *)
(* CSV nor as JSON records, although the row is still in the table.        *)
C1_ExpiredIsNotFound ==
    (IsFetch /\ resp.data_id \in DOMAIN Rows
             /\ Rows[resp.data_id].expiry < now)
        => /\ resp.status = 404
           /\ resp.content = <<>>
           /\ resp.data = <<>>

\* A fetch in the JSON format of a row that is in the table and expired.
C1_Witness ==
    /\ IsFetch
    /\ lower(resp.format) = JSONTAG
    /\ resp.data_id \in DOMAIN Rows
    /\ Rows[resp.data_id].expiry < now
    /\ resp.status = 404

(* C2, as claimed: for a key returned by a successful ingest at time t, a  *)
(* raw fetch at a time now <= t + 300 answers with the CSV the ingest      *)
(* stored.                                                                 *)
C2_FromResponseTime ==
    \A e \in returned :
        (IsFetch /\ resp.data_id = e.key /\ RawFormat(resp.format)
                 /\ resp.at <= e.t + EXPIRATION_TIME_SECONDS)
            => /\ resp.status = 200
               /\ resp.content = e.csv_data

(* C2, amended: for a key returned by a successful ingest that read the    *)
(* clock value t0 for its expiry (line 103), a raw fetch at a time         *)
(* now <= t0 + 300 answers 200 with exactly the CSV that ingest stored,    *)
(* whatever ingests and fetches came in between.                           *)
C2_FromInsertionTime ==
    \A e \in returned :
        (IsFetch /\ resp.data_id = e.key /\ RawFormat(resp.format)
                 /\ resp.at <= e.t0 + EXPIRATION_TIME_SECONDS)
            => /\ resp.status = 200
               /\ resp.media_type = "text/csv"
               /\ resp.content = e.csv_data

\* A raw fetch at the last instant t0 + 300, after a second ingest, of a key
\* whose success response was sent later than t0.
C2_Witness ==
    \E e \in returned :
        /\ IsFetch /\ resp.data_id = e.key /\ RawFormat(resp.format)
        /\ resp.at = e.t0 + EXPIRATION_TIME_SECONDS
        /\ e.t > e.t0
        /\ Cardinality(returned) > 1
        /\ resp.status = 200

(* C3: an ingest of text that fails JSON parsing answers 400 with the      *)
(* parse error, hands out no key, and leaves the table, the identifiers in *)
(* use and the keys returned exactly as they were before the call.         *)
C3_ParseErrorLeavesStore ==
    [][ (resp = NoResponse /\ resp'.op = "ingest"
            /\ ~ json_loads_ok(clean_json_output(resp'.json_string)))
        => /\ resp'.status = 400
           /\ resp'.detail = "parse"
           /\ resp'.data_id = 0
           /\ db' = db
           /\ minted' = minted
           /\ returned' = returned ]_vars

\* The parse error of "{not json" while the table holds a row.
C3_Witness ==
    /\ IsIngest
    /\ resp.json_string = <<"{not json">>
    /\ resp.status = 400
    /\ resp.detail = "parse"
    /\ DOMAIN Rows # {}

(* C4: the keys of the ingests under way and of the ingests answered are   *)
(* pairwise distinct, also for identical payloads; the row of every key    *)
(* returned holds that ingest's CSV and expiry (no row is overwritten);    *)
(* and a fetch of a returned key that answers with a payload answers with  *)
(* the CSV of the ingest that returned the key.                            *)
C4_DistinctKeysNoCrossTalk ==
    /\ \A p, q \in Callers :
          (p # q /\ call[p].pc # "idle" /\ call[q].pc # "idle")
              => call[p].data_id # call[q].data_id
    /\ \A p \in Callers : call[p].pc # "idle" => call[p].data_id \notin ReturnedKeys
    /\ \A e, f \in returned : e.key = f.key => e = f
    /\ \A e \in returned :
          /\ e.key \in DOMAIN Rows
          /\ Rows[e.key] = [csv_data |-> e.csv_data,
                            expiry |-> e.t0 + EXPIRATION_TIME_SECONDS]
          /\ (IsFetch /\ resp.data_id = e.key /\ resp.status = 200
                      /\ resp.media_type = "text/csv")
                => resp.content = e.csv_data

\* Two ingests of the same payload that overlapped (the second inserted
\* before the first was answered), answered with two keys, and a fetch of
\* the first key answering with its CSV.
C4_Witness ==
    \E e, f \in returned :
        /\ e.key < f.key
        /\ e.csv_data = f.csv_data
        /\ f.t0 < e.t
        /\ IsFetch /\ resp.data_id = e.key /\ resp.status = 200
        /\ resp.content = e.csv_data

(* C5, as claimed: a fetch of a key that no ingest has returned answers    *)
(* 404.                                                                    *)
C5_NeverReturnedIsNotFound ==
    (IsFetch /\ resp.data_id \notin ReturnedKeys) => resp.status = 404

(* C5, amended: a fetch of a key that no ingest has inserted answers 404   *)
(* and carries no payload, for every format.                               *)
C5_NeverInsertedIsNotFound ==
    (IsFetch /\ resp.data_id \notin minted)
        => /\ resp.status = 404
           /\ resp.content = <<>>
           /\ resp.data = <<>>

\* A fetch in the JSON format of a key never inserted, while the table holds
\* the row of another key.
C5_Witness ==
    /\ IsFetch
    /\ lower(resp.format) = JSONTAG
    /\ resp.data_id \notin minted
    /\ DOMAIN Rows # {}
    /\ resp.status = 404

RECORDSTAG == <<"r", "e", "c", "o", "r", "d", "s">>
Live(k) == k \in DOMAIN Rows /\ Rows[k].expiry >= now

(* C6, as claimed: a fetch of a live key never answers with an error; when *)
(* the format, lower-cased, is "records" or "json" it answers with the     *)
(* JSON records of the stored CSV, and for every other format with the     *)
(* stored CSV itself.                                                      *)
C6_FormatSelectsRepresentation ==
    (IsFetch /\ Live(resp.data_id))
        => /\ resp.status = 200
           /\ IF lower(resp.format) \in {JSONTAG, RECORDSTAG}
              THEN /\ resp.media_type = "application/json"
                   /\ resp.data = to_dict(read_csv(Rows[resp.data_id].csv_data))
              ELSE /\ resp.media_type = "text/csv"
                   /\ resp.content = Rows[resp.data_id].csv_data

(* C7, as claimed: every row of the table whose expiry has passed is       *)
(* eventually removed from the table.                                      *)
C7_ExpiredEventuallyRemoved ==
    \A k \in Keys :
        (k \in DOMAIN Rows /\ Rows[k].expiry < now) ~> (k \notin DOMAIN Rows)

(* C8, as claimed: whichever database DB_PATH selects, the file or the     *)
(* in-process one, the handlers answer alike: an ingest of text that       *)
(* parses and normalizes answers 200 with a key, and a fetch of a key      *)
(* never inserted answers 404.                                             *)
C8_BackendsAgree ==
    /\ (IsIngest /\ json_loads_ok(clean_json_output(resp.json_string))
                 /\ json_normalize_ok(
                        json_loads(clean_json_output(resp.json_string))))
          => /\ resp.status = 200
             /\ resp.data_id \in Keys
    /\ (IsFetch /\ resp.data_id \notin minted) => resp.status = 404

(* C9: when an ingest answers 200 with key k the row of k is committed in  *)
(* the table, with the ingest's CSV; the row of every key returned is in   *)
(* the table from then on; and a fetch of a returned key at a time up to   *)
(* its expiry is never answered 404.                                       *)
C9_ReturnedIsCommitted ==
    /\ (IsIngest /\ resp.status = 200)
          => /\ resp.data_id \in DOMAIN Rows
             /\ \E e \in returned :
                   /\ e.key = resp.data_id
                   /\ Rows[e.key].csv_data = e.csv_data
    /\ \A e \in returned :
          /\ e.key \in DOMAIN Rows
          /\ (IsFetch /\ resp.data_id = e.key
                      /\ resp.at <= Rows[e.key].expiry)
                => resp.status # 404

\* A fetch of a returned key at the very instant of its success response,
\* while another ingest holds the write transaction, answered with the CSV.
C9_Witness ==
    \E e \in returned :
        /\ IsFetch /\ resp.data_id = e.key
        /\ resp.at = e.t
        /\ writer # 0
        /\ resp.status = 200
        /\ resp.content = e.csv_data

(* C10: a restart leaves every committed row of the table as it was        *)
(* (init_db does not clear the table), and a fetch of a key whose row is   *)
(* in the table answers 404 exactly when its expiry has passed, before a   *)
(* restart as after it.                                                    *)
C10_RestartKeepsEntries ==
    /\ [][Restart => /\ db'.has_table
                     /\ db'.rows = db.rows]_vars
    /\ [](\A k \in DOMAIN Rows :
            (IsFetch /\ resp.data_id = k)
                => (resp.status = 404 <=> Rows[k].expiry < resp.at))

\* An identifier in use that is neither in the table nor held by a request:
\* its ingest was cut by a restart between its insert and its commit.
Aborted == {k \in minted : k \notin DOMAIN Rows
                           /\ \A p \in Callers : call[p].data_id # k}

\* After a restart that cut the second ingest, a fetch of the first key,
\* stored before the restart, answers with its CSV.
C10_Witness ==
    \E e \in returned :
        /\ \E k \in Aborted : e.key < k
        /\ IsFetch /\ resp.data_id = e.key
        /\ resp.status = 200
        /\ resp.content = e.csv_data

Expired(k) == k \in DOMAIN Rows /\ Rows[k].expiry < now

\* What fetch_data answers, at this instant and for this format, when the
\* table holds no row for the key.
AbsentResponse(data_id, format) ==
    fetch_response(select_row(<<>>, data_id, format), now)

(* C11: the response to a fetch of a key whose row is in the table and     *)
(* expired is, in status and in body, the response the same request gets   *)
(* when the table has no row for the key: 404 with the one detail text and *)
(* no payload.                                                             *)
C11_ExpiredLooksAbsent ==
    (IsFetch /\ Expired(resp.data_id))
        => /\ resp = AbsentResponse(resp.data_id, resp.format)
           /\ resp.status = 404

\* A fetch of an expired key, in the default format, while another key has
\* never been inserted.
C11_Witness ==
    /\ IsFetch
    /\ Expired(resp.data_id)
    /\ resp.format = <<"c", "s", "v">>
    /\ Keys \ minted # {}
    /\ resp.status = 404
    /\ resp.detail = "not found"

\* The text begins, white space aside, with a fence.
Fenced_(text) == text # None /\ startswith(strip(text), FENCE)
\* The number of fences in the text.
Fences(text) == Len(split(strip(text), FENCE)) - 1

(* C12: for every text, and for None, clean_json_output applied to its own *)
(* result gives that result again.                                         *)
C12_CleanIdempotent ==
    cleaned.calls >= 2 => cleaned.output = cleaned.first

\* Two calls on a text with several fences whose fenced content begins with
\* the tag: the first call changed the text, the second changed nothing.
C12_Witness ==
    /\ cleaned.calls = 2
    /\ Fenced_(cleaned.input)
    /\ Fences(cleaned.input) > 2
    /\ startswith(lower(strip(split(strip(cleaned.input), FENCE)[2])), JSONTAG)
    /\ cleaned.first # cleaned.input
    /\ cleaned.first # <<>>
    /\ cleaned.output = cleaned.first

(* C13, as claimed: a text that begins with a fence and holds no second    *)
(* fence comes back from clean_json_output unchanged.                      *)
C13_UnterminatedFallsBack ==
    (cleaned.calls >= 1 /\ Fenced_(cleaned.input) /\ Fences(cleaned.input) = 1)
        => cleaned.first = cleaned.input

\* The text after the opening fence, stripped, without a leading tag.
AfterFence(text) ==
    LET stripped == strip(text)
        content == strip(SubSeq(stripped, Len(FENCE) + 1, Len(stripped)))
    IN  IF startswith(lower(content), JSONTAG)
        THEN strip(SubSeq(content, Len(JSONTAG) + 1, Len(content)))
        ELSE content

(* C13, amended: for a text that begins with a fence and holds no second   *)
(* fence, clean_json_output returns what follows the opening fence,        *)
(* stripped of white space and of a leading tag 'json', never the input;   *)
(* it returns the input unchanged exactly for the texts that do not begin, *)
(* white space aside, with a fence.                                        *)
C13_UnterminatedIsStripped ==
    /\ (cleaned.calls >= 1 /\ Fenced_(cleaned.input)
                           /\ Fences(cleaned.input) = 1)
          => /\ cleaned.first = AfterFence(cleaned.input)
             /\ cleaned.first # cleaned.input
    /\ (cleaned.calls >= 1 /\ cleaned.input # None
                           /\ ~ Fenced_(cleaned.input))
          => cleaned.first = cleaned.input

\* An opening fence with the tag, a document and no closing fence: the
\* document alone comes back.
C13_Witness ==
    /\ cleaned.calls >= 1
    /\ cleaned.input = FENCE \o JSONTAG \o <<"\n", "D1">>
    /\ cleaned.first = <<"D1">>

\* The documents that are arrays of records: they parse and normalize.
Tabular == {d \in DocNames : /\ json_loads_ok(<<d>>)
                             /\ json_normalize_ok(json_loads(<<d>>))}
\* The CSV and the column count an ingest of the bare document gives.
BareCsv(d)     == to_csv(json_normalize(json_loads(<<d>>)))
BareColumns(d) == column_count(json_normalize(json_loads(<<d>>)))

RecordsAsText(d) ==
    LET df == json_normalize(Doc(d))
    IN  [r \in 1..Len(df.rows) |->
            [c \in 1..Len(df.columns) |->
                Mem(df.columns[c],
                    Str(IF df.rows[r][c].t = "nan" THEN ""
                        ELSE df.rows[r][c].s))]]

(* C15, as claimed: a fetch, in the records format, of a live key that an  *)
(* ingest of an array of flat records stored answers 200 with one record   *)
(* per input record, in input order, keyed by the union of the input keys  *)
(* in first-seen order, every value as text and a missing key as "".       *)
C15_RecordsRoundTrip ==
    \A d \in Tabular :
        (IsFetch /\ Live(resp.data_id)
                 /\ lower(resp.format) \in {RECORDSTAG, JSONTAG}
                 /\ Rows[resp.data_id].csv_data = BareCsv(d))
            => /\ resp.status = 200
               /\ resp.data = RecordsAsText(d)

\* The error kinds of the boundary, by the detail the model gives each: the
\* parse error, the shape error, not-found and the storage failure.
ErrorKinds  == {"parse", "normalize", "not found", "OperationalError"}
StatusCodes == {400, 404, 500}
ErrorOf(kind, code) == resp.detail = kind /\ resp.status = code

(* C16, as claimed: no two different error kinds are answered with the     *)
(* same response code: once an error of one kind has been answered with a  *)
(* code, no error of another kind is ever answered with that code.         *)
C16_DistinctErrorCodes ==
    \A kind \in ErrorKinds : \A other \in ErrorKinds \ {kind} :
        \A code \in StatusCodes :
            [](ErrorOf(kind, code) => [](~ ErrorOf(other, code)))

(* C17: a fetch, in any format and of any key, live, expired or unknown,   *)
(* leaves the table exactly as it was; and no step at all, an ingest       *)
(* included, removes a row of the table or changes its payload or expiry.  *)
C17_EntriesImmutable ==
    [][ /\ (resp = NoResponse /\ resp'.op = "fetch") => db' = db
        /\ \A k \in DOMAIN db.rows :
              /\ k \in DOMAIN db'.rows
              /\ db'.rows[k] = db.rows[k] ]_vars

\* A fetch that found the first key expired, after a second ingest was
\* committed: both rows are in the table.
C17_Witness ==
    /\ IsFetch
    /\ Expired(resp.data_id)
    /\ resp.status = 404
    /\ \E k \in DOMAIN Rows : k > resp.data_id /\ ~ Expired(k)

C19_ExpiryIsPermanent ==
    /\ [][ /\ now' >= now
           /\ \A k \in Keys :
                 (k \in DOMAIN db.rows /\ db.rows[k].expiry < now)
                     => /\ k \in DOMAIN db'.rows
                        /\ db'.rows[k].expiry < now' ]_vars
    /\ [](\A k \in Keys :
            (IsFetch /\ resp.data_id = k /\ Expired(k)) => resp.status = 404)

\* A fetch of an expired key answered 404 after a later ingest was stored
\* and answered past that key's expiry.
C19_Witness ==
    /\ IsFetch
    /\ Expired(resp.data_id)
    /\ resp.status = 404
    /\ \E f \in returned :
          /\ f.key # resp.data_id
          /\ f.t0 > Rows[resp.data_id].expiry

=============================================================================
